---- MODULE Spec2Model ----
(***************************************************************************)
(* CAPSULE: a dual-function Caps Lock key (src/capsule.c).                 *)
(* Spec models the Linux program: main, run_event_loop,                    *)
(* is_killswitch_active and handle_event, with the translation state       *)
(* kbd_state, the events written to the uinput device, and the life cycle  *)
(* of the grab and the uinput device.  SpecWin models the Windows program: *)
(* WinMain, LowLevelKeyboardProc and SendKeyPress.                         *)
(***************************************************************************)
EXTENDS Integers, Sequences, FiniteSets

(***************************************************************************)
(* Bounds of the model.                                                    *)
(***************************************************************************)
\* Number of events libevdev_next_event delivers in one run.
MaxEvents == 4
\* Faults of the environment (a read that fails, a poll that fails, a
\* signal) are injected after at most this many events.
MaxFaultEvents == 1
\* Calls of LowLevelKeyboardProc in a behaviour of the Windows program.
MaxHookCalls == 3

(***************************************************************************)
(* Event types, key codes and error numbers used by capsule.c.             *)
(***************************************************************************)
EV_SYN == 0
EV_KEY == 1
SYN_REPORT == 0

KEY_CAPSLOCK == 58
KEY_H == 35
KEY_J == 36
KEY_K == 37
KEY_L == 38
KEY_P == 25
KEY_N == 49
KEY_D == 32
KEY_Y == 21
KEY_O == 24
KEY_U == 22
KEY_I == 23

KEY_LEFT == 105
KEY_DOWN == 108
KEY_UP == 103
KEY_RIGHT == 106
KEY_PAGEUP == 104
KEY_PAGEDOWN == 109
KEY_DELETE == 111
KEY_7 == 8
KEY_0 == 11
KEY_8 == 9
KEY_9 == 10

KEY_RIGHTALT == 100
KEY_LEFTALT == 56
KEY_LEFTCTRL == 29
KEY_RIGHTCTRL == 97

EAGAIN == 11
ENODEV == 19
EIO == 5
LIBEVDEV_READ_STATUS_SUCCESS == 0

\* struct input_event, reduced to the fields capsule.c reads.
Event(t, c, v) == [type |-> t, code |-> c, value |-> v]

\* One row of action_table.
Entry(c, oc, la, ra, lc) ==
  [code |-> c,
   output |-> [code |-> oc, left_alt |-> la, right_alt |-> ra, left_ctrl |-> lc]]

action_table ==
  << Entry(KEY_H, KEY_LEFT, FALSE, FALSE, FALSE),
     Entry(KEY_J, KEY_DOWN, FALSE, FALSE, FALSE),
     Entry(KEY_K, KEY_UP, FALSE, FALSE, FALSE),
     Entry(KEY_L, KEY_RIGHT, FALSE, FALSE, FALSE),
     Entry(KEY_P, KEY_PAGEUP, FALSE, FALSE, FALSE),
     Entry(KEY_N, KEY_PAGEDOWN, FALSE, FALSE, FALSE),
     Entry(KEY_D, KEY_DELETE, FALSE, FALSE, FALSE),
     Entry(KEY_Y, KEY_7, FALSE, TRUE, FALSE),
     Entry(KEY_O, KEY_0, FALSE, TRUE, FALSE),
     Entry(KEY_U, KEY_8, FALSE, TRUE, FALSE),
     Entry(KEY_I, KEY_9, FALSE, TRUE, FALSE) >>

\* ARRAY_SIZE(action_table)
ActionIndex == 1..Len(action_table)

(***************************************************************************)
(* The input devices of the machine.  A device is the set of key codes it  *)
(* reports (it has event type EV_KEY when the set is not empty) and        *)
(* whether it has event type EV_LED; run_event_loop creates the uinput     *)
(* device from it.  Every row of action_table has its trigger on one of    *)
(* the keyboards; one keyboard has, next to the trigger H, the arrow key   *)
(* whose code row H writes; one device has no Caps Lock key.               *)
(***************************************************************************)
\* struct libevdev*, reduced to what capsule.c asks of it.
InputDevice(codes, led) == [null |-> FALSE, codes |-> codes, led |-> led]

\* The null pointer open_device and find_keyboard_device return.
NULL == [null |-> TRUE, codes |-> {}, led |-> FALSE]

Devices ==
  { InputDevice({KEY_CAPSLOCK, KEY_H, KEY_LEFTALT}, TRUE),
    InputDevice({KEY_CAPSLOCK, KEY_H, KEY_LEFT}, TRUE),
    InputDevice({KEY_CAPSLOCK, KEY_Y, KEY_O}, TRUE),
    InputDevice({KEY_CAPSLOCK, KEY_H, KEY_LEFTCTRL, KEY_RIGHTCTRL}, TRUE),
    InputDevice({KEY_LEFTALT}, TRUE) }
  \cup { InputDevice({KEY_CAPSLOCK, action_table[i].code}, FALSE) :
           i \in { j \in ActionIndex :
                     action_table[j].code \notin {KEY_H, KEY_Y, KEY_O} } }

\* The machines the program is started on: the devices /dev/input/event0,
\* event1, ... in order, each as open_device returns it (NULL when it
\* cannot be opened).  One device alone, or a device that cannot be
\* opened, a keyboard without LEDs and a keyboard with LEDs.
Machines ==
  { <<d>> : d \in Devices }
  \cup { << NULL,
            InputDevice({KEY_CAPSLOCK, KEY_J}, FALSE),
            InputDevice({KEY_CAPSLOCK, KEY_H, KEY_LEFTALT}, TRUE) >> }

\* The command line: 0 for no device argument, k for the path of the k-th
\* device of the machine (a path that does not exist when there is none).
Args == 0..2

\* ev->value of a key event: 0 release, 1 press, 2 repeat.
Values == {0, 1, 2}

\* The events a device can deliver.
DeviceEvents(dev) ==
  { Event(EV_KEY, c, v) : c \in dev, v \in Values }
  \cup { Event(EV_SYN, SYN_REPORT, 0) }

\* The keys whose live state the program queries.
KillKeys == {KEY_LEFTCTRL, KEY_RIGHTCTRL}

VARIABLES
  pc,         \* position of main / run_event_loop
  evdev,      \* the input device main opened or found, NULL if none
  keys,       \* libevdev's live key state of evdev, for KillKeys
  kbd_state,  \* the translation state
  uinput_dev, \* TRUE while the virtual device exists
  grabbed,    \* TRUE from libevdev_grab(LIBEVDEV_GRAB) to LIBEVDEV_UNGRAB
  rc,         \* run_event_loop's rc
  trace,      \* history: per event read, the event, whether handle_event
              \* got it, and the events handle_event wrote for it
  pre,        \* history: kbd_state before the last event read
  diagnostic, \* TRUE once ERROR has printed a line on a path that ends the
              \* process (the line for a read that failed and is retried is
              \* not counted: the loop goes on after it)
  exit_status,\* <<>> while the process runs, <<v>> once main or WinMain
              \* has returned v
  win_pc,     \* position of WinMain
  hhkLowLevelKybd, \* TRUE while the low-level keyboard hook is installed
  capsule,    \* the Windows program's switch and translation state
  hook_trace, \* history: per call of LowLevelKeyboardProc, its arguments,
              \* the keys it sent and whether it called the next hook
  hook_pre    \* history: capsule before the last call of the hook

\* The variables of the Linux program and of the Windows program.
linux_vars == <<pc, evdev, keys, kbd_state, uinput_dev, grabbed, rc, trace, pre>>
win_vars == <<win_pc, hhkLowLevelKybd, capsule, hook_trace, hook_pre>>

vars == <<pc, evdev, keys, kbd_state, uinput_dev, grabbed, rc, trace, pre,
          diagnostic, exit_status, win_pc, hhkLowLevelKybd, capsule, hook_trace,
          hook_pre>>

\* kbd_state as zero-initialised static storage.
kbd_state_init ==
  [caps_lock_pressed |-> FALSE,
   key_pressed_while_caps_lock_pressed |-> FALSE,
   action_table_activated |-> [i \in ActionIndex |-> FALSE]]

(***************************************************************************)
(* handle_event                                                            *)
(***************************************************************************)
\* Result of handle_event: the new kbd_state and the events written.
Result(st, w) == [state |-> st, w |-> w]

\* Mutant of forward_event: the event is written with type EV_KEY whatever
\* its type.
forward_event_type_key(st, ev) ==
  Result(st, <<Event(EV_KEY, ev.code, ev.value)>>)

\* Mutant of forward_event: only key events are written.
forward_event_keys_only(st, ev) ==
  Result(st, IF ev.type = EV_KEY THEN <<ev>> ELSE <<>>)

\* forward_event: the event is written as it came.
forward_event(st, ev) == Result(st, <<ev>>)

\* Mutant of caps_lock_branch: a repeat is handled as a press.
caps_lock_branch_repeat_is_press(st, ev) ==
  IF ev.value >= 1 THEN
    Result([st EXCEPT !.caps_lock_pressed = TRUE,
                      !.key_pressed_while_caps_lock_pressed = FALSE], <<>>)
  ELSE
    LET released == [st EXCEPT !.caps_lock_pressed = FALSE] IN
    IF st.key_pressed_while_caps_lock_pressed THEN Result(released, <<>>)
    ELSE Result(released,
                << Event(EV_KEY, KEY_CAPSLOCK, 1),
                   Event(EV_KEY, EV_SYN, 0),
                   ev >>)

\* Mutant of caps_lock_branch: the press leaves
\* key_pressed_while_caps_lock_pressed as it was.
caps_lock_branch_press_keeps_dirty(st, ev) ==
  IF ev.value > 1 THEN Result(st, <<>>)
  ELSE IF ev.value = 1 THEN
    Result([st EXCEPT !.caps_lock_pressed = TRUE], <<>>)
  ELSE
    LET released == [st EXCEPT !.caps_lock_pressed = FALSE] IN
    IF st.key_pressed_while_caps_lock_pressed THEN Result(released, <<>>)
    ELSE Result(released,
                << Event(EV_KEY, KEY_CAPSLOCK, 1),
                   Event(EV_KEY, EV_SYN, 0),
                   ev >>)

\* The Caps Lock branch.
caps_lock_branch(st, ev) ==
  IF ev.value > 1 THEN Result(st, <<>>)
  ELSE IF ev.value = 1 THEN
    Result([st EXCEPT !.caps_lock_pressed = TRUE,
                      !.key_pressed_while_caps_lock_pressed = FALSE], <<>>)
  ELSE
    LET released == [st EXCEPT !.caps_lock_pressed = FALSE] IN
    IF st.key_pressed_while_caps_lock_pressed THEN Result(released, <<>>)
    ELSE Result(released,
                << Event(EV_KEY, KEY_CAPSLOCK, 1),
                   Event(EV_KEY, EV_SYN, 0),
                   ev >>)

\* The for loop's search: the first row whose code matches, 0 when none.
match_index(code) ==
  IF \E i \in ActionIndex : action_table[i].code = code
  THEN CHOOSE i \in ActionIndex :
         /\ action_table[i].code = code
         /\ \A j \in 1..(i - 1) : action_table[j].code # code
  ELSE 0

\* Mutant of back_off_press: the negation of caps_lock_pressed is lost.
back_off_press_lost_negation(st, ev) == ev.value = 1 /\ st.caps_lock_pressed

\* Back off: the key was pressed without Caps Lock held.
back_off_press(st, ev) == ev.value = 1 /\ ~st.caps_lock_pressed

\* Mutant of back_off_release: decided by caps_lock_pressed instead of the
\* action's activated flag.
back_off_release_by_caps(st, i, ev) == ev.value # 1 /\ ~st.caps_lock_pressed

\* Back off: a release or repeat of a key whose action is not activated.
back_off_release(st, i, ev) == ev.value # 1 /\ ~st.action_table_activated[i]

\* Mutant of modifier_prefix: the modifier is written for repeats too.
modifier_prefix_on_repeat(i, ev) ==
  (IF action_table[i].output.right_alt
   THEN <<Event(EV_KEY, KEY_RIGHTALT, ev.value)>> ELSE <<>>)
  \o
  (IF action_table[i].output.left_ctrl
   THEN <<Event(EV_KEY, KEY_LEFTCTRL, ev.value)>> ELSE <<>>)

\* The modifier keys written before the output code.
modifier_prefix(i, ev) ==
  (IF action_table[i].output.right_alt /\ ev.value <= 1
   THEN <<Event(EV_KEY, KEY_RIGHTALT, ev.value)>> ELSE <<>>)
  \o
  (IF action_table[i].output.left_ctrl /\ ev.value <= 1
   THEN <<Event(EV_KEY, KEY_LEFTCTRL, ev.value)>> ELSE <<>>)

\* Mutant of action_writes: the output code is written before the modifier.
action_writes_code_first(i, ev) ==
  <<Event(EV_KEY, action_table[i].output.code, ev.value)>> \o modifier_prefix(i, ev)

\* What a matched action writes.
action_writes(i, ev) ==
  modifier_prefix(i, ev) \o <<Event(EV_KEY, action_table[i].output.code, ev.value)>>

\* Mutant of book_keeping: the action is activated but the hold is not
\* marked as used.
book_keeping_no_dirty(st, i, ev) ==
  IF ev.value <= 1 THEN
    [st EXCEPT !.action_table_activated[i] = (ev.value = 1 /\ st.caps_lock_pressed)]
  ELSE st

\* Mutant of book_keeping: a release leaves the action activated.
book_keeping_release_keeps_activated(st, i, ev) ==
  IF ev.value = 1 THEN
    LET activated == st.caps_lock_pressed IN
    [st EXCEPT !.action_table_activated[i] = activated,
               !.key_pressed_while_caps_lock_pressed = @ \/ activated]
  ELSE st

\* Book keeping after a matched action.
book_keeping(st, i, ev) ==
  IF ev.value <= 1 THEN
    LET activated == (ev.value = 1 /\ st.caps_lock_pressed) IN
    [st EXCEPT !.action_table_activated[i] = activated,
               !.key_pressed_while_caps_lock_pressed = @ \/ activated]
  ELSE st

\* Mutant of no_mapping: a repeat counts as a press.
no_mapping_repeat_is_press(st, ev) ==
  IF st.caps_lock_pressed
  THEN Result([st EXCEPT !.key_pressed_while_caps_lock_pressed = @ \/ (ev.value # 0)],
              <<>>)
  ELSE forward_event(st, ev)

\* No mapping found.
no_mapping(st, ev) ==
  IF st.caps_lock_pressed
  THEN Result([st EXCEPT !.key_pressed_while_caps_lock_pressed = @ \/ (ev.value = 1)],
              <<>>)
  ELSE forward_event(st, ev)

handle_event(st, ev) ==
  IF ev.type # EV_KEY THEN forward_event(st, ev)
  ELSE IF ev.code = KEY_CAPSLOCK THEN caps_lock_branch(st, ev)
  ELSE LET i == match_index(ev.code) IN
       IF i # 0 THEN
         IF back_off_press(st, ev) \/ back_off_release(st, i, ev)
         THEN forward_event(st, ev)
         ELSE Result(book_keeping(st, i, ev), action_writes(i, ev))
       ELSE no_mapping(st, ev)

(***************************************************************************)
(* The Windows program: SendKeyPress and LowLevelKeyboardProc              *)
(***************************************************************************)
HC_ACTION == 0
LLKHF_INJECTED == 16
KEYEVENTF_KEYUP == 2
WM_KEYDOWN == 256
WM_KEYUP == 257
WM_SYSKEYDOWN == 260
WM_SYSKEYUP == 261

VK_BACK == 8
VK_RETURN == 13
VK_CAPITAL == 20
VK_ESCAPE == 27
VK_PRIOR == 33
VK_NEXT == 34
VK_END == 35
VK_HOME == 36
VK_LEFT == 37
VK_UP == 38
VK_RIGHT == 39
VK_DOWN == 40
VK_DELETE == 46
VK_OEM_3 == 192

\* The character constants 'A' .. 'P' of the Windows action_table.
CHAR_A == 65
CHAR_D == 68
CHAR_E == 69
CHAR_H == 72
CHAR_J == 74
CHAR_K == 75
CHAR_L == 76
CHAR_M == 77
CHAR_N == 78
CHAR_P == 80

KEY_ESC == VK_ESCAPE

\* action_table of the Windows program; no row declares a modifier.
win_action_table ==
  << Entry(CHAR_H, VK_LEFT, FALSE, FALSE, FALSE),
     Entry(CHAR_J, VK_DOWN, FALSE, FALSE, FALSE),
     Entry(CHAR_K, VK_UP, FALSE, FALSE, FALSE),
     Entry(CHAR_L, VK_RIGHT, FALSE, FALSE, FALSE),
     Entry(CHAR_P, VK_PRIOR, FALSE, FALSE, FALSE),
     Entry(CHAR_N, VK_NEXT, FALSE, FALSE, FALSE),
     Entry(CHAR_D, VK_DELETE, FALSE, FALSE, FALSE),
     Entry(VK_OEM_3, VK_BACK, FALSE, FALSE, FALSE),
     Entry(CHAR_M, VK_RETURN, FALSE, FALSE, FALSE),
     Entry(CHAR_A, VK_HOME, FALSE, FALSE, FALSE),
     Entry(CHAR_E, VK_END, FALSE, FALSE, FALSE) >>

WinActionIndex == 1..Len(win_action_table)

\* The struct capsule with its switch set to swap.
capsule_init(swap) ==
  [swap_caps_lock_and_escape |-> swap,
   keyboard |->
     [state |->
        [grabbed |-> FALSE,
         caps_lock_pressed |-> FALSE,
         key_pressed_while_caps_lock_pressed |-> FALSE,
         action_table_activated |-> [i \in WinActionIndex |-> FALSE]]]]

\* KBDLLHOOKSTRUCT, reduced to the fields LowLevelKeyboardProc reads.
HookStruct(vk, flags) == [vkCode |-> vk, flags |-> flags]

\* The keys and messages the hook is called with.
WinKeys == {VK_CAPITAL, VK_ESCAPE, CHAR_H, VK_LEFT}
KeyEventIds == {WM_KEYDOWN, WM_KEYUP, WM_SYSKEYDOWN, WM_SYSKEYUP}

\* The calls of the hook: every message for every physical key; injected
\* presses and releases of the keys SendKeyPress is called with (Caps Lock,
\* Escape, an output code) and an injected press of a trigger; and a call
\* whose nCode is not HC_ACTION.
HookCalls ==
  {[nCode |-> HC_ACTION, keyEventId |-> k, p |-> HookStruct(vk, 0)] :
     k \in KeyEventIds, vk \in WinKeys}
  \cup {[nCode |-> HC_ACTION, keyEventId |-> k,
         p |-> HookStruct(vk, LLKHF_INJECTED)] :
           k \in {WM_KEYDOWN, WM_KEYUP}, vk \in {VK_CAPITAL, VK_ESCAPE, VK_LEFT}}
  \cup {[nCode |-> HC_ACTION, keyEventId |-> WM_KEYDOWN,
         p |-> HookStruct(CHAR_H, LLKHF_INJECTED)]}
  \cup {[nCode |-> HC_ACTION - 1, keyEventId |-> WM_KEYDOWN,
         p |-> HookStruct(VK_CAPITAL, 0)]}

\* SendKeyPress: the INPUT handed to SendInput.
SendKeyPress(vk, keyEventId) ==
  [wVk |-> vk,
   dwFlags |-> IF keyEventId = WM_KEYUP \/ keyEventId = WM_SYSKEYUP
               THEN KEYEVENTF_KEYUP ELSE 0]

\* Result of LowLevelKeyboardProc: the new capsule, the inputs sent, and
\* whether it returned through CallNextHookEx (otherwise it returned 1).
HookResult(c, sent, next) == [capsule |-> c, sent |-> sent, next |-> next]

\* Label call_next_hook.
call_next_hook(c) == HookResult(c, <<>>, TRUE)

\* Mutant of win_caps_lock_branch: the switch is not read, Caps Lock is
\* sent in both settings.
win_caps_lock_branch_switch_unread(c, keyPressed) ==
  IF keyPressed THEN
    HookResult([c EXCEPT !.keyboard.state.caps_lock_pressed = TRUE,
                         !.keyboard.state.key_pressed_while_caps_lock_pressed = FALSE],
               <<>>, FALSE)
  ELSE
    LET released == [c EXCEPT !.keyboard.state.caps_lock_pressed = FALSE] IN
    IF c.keyboard.state.key_pressed_while_caps_lock_pressed
    THEN HookResult(released, <<>>, FALSE)
    ELSE HookResult(released,
                    << SendKeyPress(VK_CAPITAL, WM_KEYDOWN),
                       SendKeyPress(VK_CAPITAL, WM_KEYUP) >>,
                    FALSE)

\* The Caps Lock branch of LowLevelKeyboardProc.
win_caps_lock_branch(c, keyPressed) ==
  IF keyPressed THEN
    HookResult([c EXCEPT !.keyboard.state.caps_lock_pressed = TRUE,
                         !.keyboard.state.key_pressed_while_caps_lock_pressed = FALSE],
               <<>>, FALSE)
  ELSE
    LET released == [c EXCEPT !.keyboard.state.caps_lock_pressed = FALSE] IN
    IF c.keyboard.state.key_pressed_while_caps_lock_pressed
    THEN HookResult(released, <<>>, FALSE)
    ELSE LET key == IF c.swap_caps_lock_and_escape THEN KEY_ESC ELSE VK_CAPITAL IN
         HookResult(released,
                    << SendKeyPress(key, WM_KEYDOWN), SendKeyPress(key, WM_KEYUP) >>,
                    FALSE)

\* Index of the first row of win_action_table whose code is vk, 0 if none.
win_match_index(vk) ==
  IF \E i \in WinActionIndex : win_action_table[i].code = vk
  THEN CHOOSE i \in WinActionIndex :
         /\ win_action_table[i].code = vk
         /\ \A j \in WinActionIndex : win_action_table[j].code = vk => i <= j
  ELSE 0

\* A matched row that is not backed off: the output code is sent with the
\* message that came in, then the book keeping.
win_action(c, i, keyEventId, keyPressed) ==
  LET activated == (keyPressed /\ c.keyboard.state.caps_lock_pressed) IN
  HookResult([c EXCEPT !.keyboard.state.action_table_activated[i] = activated,
                       !.keyboard.state.key_pressed_while_caps_lock_pressed =
                          @ \/ activated],
             <<SendKeyPress(win_action_table[i].output.code, keyEventId)>>,
             FALSE)

\* No row matched: the hold is marked as used, the event goes to the next
\* hook.
win_no_mapping(c, keyPressed) ==
  IF c.keyboard.state.caps_lock_pressed
  THEN call_next_hook(
         [c EXCEPT !.keyboard.state.key_pressed_while_caps_lock_pressed =
                     @ \/ keyPressed])
  ELSE call_next_hook(c)

\* Mutant of LowLevelKeyboardProc: the flags of the event are not read,
\* an injected event is handled as a physical one.
LowLevelKeyboardProc_flags_unread(c, nCode, keyEventId, p) ==
  IF nCode # HC_ACTION THEN call_next_hook(c)
  ELSE IF c.swap_caps_lock_and_escape /\ p.vkCode = KEY_ESC
  THEN HookResult(c, <<SendKeyPress(VK_CAPITAL, keyEventId)>>, FALSE)
  ELSE
    LET keyPressed == (keyEventId = WM_KEYDOWN \/ keyEventId = WM_SYSKEYDOWN)
        s == c.keyboard.state
        i == win_match_index(p.vkCode)
    IN
    IF p.vkCode = VK_CAPITAL THEN win_caps_lock_branch(c, keyPressed)
    ELSE IF i # 0 THEN
      IF (keyPressed /\ ~s.caps_lock_pressed)
           \/ (~keyPressed /\ ~s.action_table_activated[i])
      THEN call_next_hook(c)
      ELSE win_action(c, i, keyEventId, keyPressed)
    ELSE win_no_mapping(c, keyPressed)

LowLevelKeyboardProc(c, nCode, keyEventId, p) ==
  IF nCode # HC_ACTION THEN call_next_hook(c)
  ELSE IF (p.flags \div LLKHF_INJECTED) % 2 = 1 THEN call_next_hook(c)
  ELSE IF c.swap_caps_lock_and_escape /\ p.vkCode = KEY_ESC
  THEN HookResult(c, <<SendKeyPress(VK_CAPITAL, keyEventId)>>, FALSE)
  ELSE
    LET keyPressed == (keyEventId = WM_KEYDOWN \/ keyEventId = WM_SYSKEYDOWN)
        s == c.keyboard.state
        i == win_match_index(p.vkCode)
    IN
    IF p.vkCode = VK_CAPITAL THEN win_caps_lock_branch(c, keyPressed)
    ELSE IF i # 0 THEN
      IF (keyPressed /\ ~s.caps_lock_pressed)
           \/ (~keyPressed /\ ~s.action_table_activated[i])
      THEN call_next_hook(c)
      ELSE win_action(c, i, keyEventId, keyPressed)
    ELSE win_no_mapping(c, keyPressed)

(***************************************************************************)
(* main and run_event_loop                                                 *)
(***************************************************************************)
\* open_device on the path of the k-th device of machine m.
open_device(m, k) == IF k \in 1..Len(m) THEN m[k] ELSE NULL

is_keyboard_event_device(dev, require_led) ==
  /\ ~dev.null
  /\ dev.codes # {}
  /\ (~require_led \/ dev.led)
  /\ KEY_CAPSLOCK \in dev.codes

\* find_keyboard_device from the i-th device of machine m on: the first
\* device that opens and is a keyboard with LEDs, NULL when the paths end.
RECURSIVE find_keyboard_device_from(_, _)
find_keyboard_device_from(m, i) ==
  IF i > Len(m) THEN NULL
  ELSE LET dev == open_device(m, i) IN
       IF dev.null THEN find_keyboard_device_from(m, i + 1)
       ELSE IF is_keyboard_event_device(dev, TRUE) THEN dev
       ELSE find_keyboard_device_from(m, i + 1)

find_keyboard_device(m) == find_keyboard_device_from(m, 1)

\* Mutant of is_killswitch_active: right Control is compared with the wrong
\* threshold.
is_killswitch_active_threshold(k) == k[KEY_LEFTCTRL] > 0 /\ k[KEY_RIGHTCTRL] > 1

is_killswitch_active(k) == k[KEY_LEFTCTRL] > 0 /\ k[KEY_RIGHTCTRL] > 0

\* libevdev_next_event keeps the device's key state up to date.
update_keys(k, ev) ==
  IF ev.type = EV_KEY /\ ev.code \in DOMAIN k
  THEN [k EXCEPT ![ev.code] = IF ev.value # 0 THEN 1 ELSE 0]
  ELSE k

\* The process at the start of main: kbd_state is zero-initialised, no
\* device is open yet.
Init ==
  /\ pc = "main"
  /\ evdev = NULL
  /\ keys = [c \in KillKeys |-> 0]
  /\ kbd_state = kbd_state_init
  /\ uinput_dev = FALSE
  /\ grabbed = FALSE
  /\ rc = -1
  /\ trace = <<>>
  /\ pre = kbd_state_init
  /\ diagnostic = FALSE
  /\ exit_status = <<>>
  /\ win_pc = "WinMain"
  /\ hhkLowLevelKybd = FALSE
  /\ capsule = capsule_init(TRUE)
  /\ hook_trace = <<>>
  /\ hook_pre = capsule_init(TRUE)

\* main up to the usleep of run_event_loop, started on machine m with
\* command line arg: the privilege check, the device given or found, the
\* device check (require_led false) and the creation of the uinput device.
\* Every path that returns has printed an error and returns -1.
Main(root, m, arg, created) ==
  /\ pc = "main"
  /\ IF ~root
     THEN /\ pc' = "exited"
          /\ diagnostic' = TRUE
          /\ exit_status' = <<-1>>
          /\ UNCHANGED <<evdev, uinput_dev>>
     ELSE LET dev == IF arg > 0 THEN open_device(m, arg)
                     ELSE find_keyboard_device(m) IN
          /\ evdev' = dev
          /\ IF is_keyboard_event_device(dev, FALSE) /\ created
             THEN /\ pc' = "usleep"
                  /\ uinput_dev' = TRUE
                  /\ UNCHANGED <<diagnostic, exit_status>>
             ELSE /\ pc' = "exited"
                  /\ diagnostic' = TRUE
                  /\ exit_status' = <<-1>>
                  /\ UNCHANGED uinput_dev
  /\ UNCHANGED <<keys, kbd_state, grabbed, rc, trace, pre>>
  /\ UNCHANGED win_vars

\* run_event_loop after its usleep: the grab, whose result the code does
\* not read, up to the first poll.
Grab ==
  /\ pc = "usleep"
  /\ grabbed' = TRUE
  /\ pc' = "loop"
  /\ UNCHANGED <<evdev, keys, kbd_state, uinput_dev, rc, trace, pre>>
  /\ UNCHANGED <<diagnostic, exit_status>>
  /\ UNCHANGED win_vars

\* libevdev_next_event returns 0 with event ev.
NextEvent(ev) ==
  /\ pc = "loop"
  /\ Len(trace) < MaxEvents
  /\ rc' = LIBEVDEV_READ_STATUS_SUCCESS
  /\ keys' = update_keys(keys, ev)
  /\ pre' = kbd_state
  /\ IF is_killswitch_active(keys')
     THEN /\ pc' = "done"
          /\ diagnostic' = TRUE
          /\ trace' = Append(trace, [ev |-> ev, handled |-> FALSE, w |-> <<>>])
          /\ UNCHANGED kbd_state
     ELSE LET r == handle_event(kbd_state, ev) IN
          /\ pc' = "loop"
          /\ kbd_state' = r.state
          /\ trace' = Append(trace, [ev |-> ev, handled |-> TRUE, w |-> r.w])
          /\ UNCHANGED diagnostic
  /\ UNCHANGED <<evdev, uinput_dev, grabbed, exit_status>>
  /\ UNCHANGED win_vars

\* libevdev_next_event returns -EAGAIN: back to poll.
NextEventAgain ==
  /\ pc = "loop"
  /\ Len(trace) <= MaxFaultEvents
  /\ rc' = -EAGAIN
  /\ UNCHANGED <<pc, evdev, keys, kbd_state, uinput_dev, grabbed, trace, pre>>
  /\ UNCHANGED <<diagnostic, exit_status>>
  /\ UNCHANGED win_vars

\* libevdev_next_event returns another error: logged, back to poll.
NextEventError ==
  /\ pc = "loop"
  /\ Len(trace) <= MaxFaultEvents
  /\ rc' = -EIO
  /\ UNCHANGED <<pc, evdev, keys, kbd_state, uinput_dev, grabbed, trace, pre>>
  /\ UNCHANGED <<diagnostic, exit_status>>
  /\ UNCHANGED win_vars

\* libevdev_next_event returns -ENODEV.
NextEventNoDev ==
  /\ pc = "loop"
  /\ Len(trace) <= MaxFaultEvents
  /\ rc' = -ENODEV
  /\ diagnostic' = TRUE
  /\ pc' = "done"
  /\ UNCHANGED <<evdev, keys, kbd_state, uinput_dev, grabbed, trace, pre>>
  /\ UNCHANGED exit_status
  /\ UNCHANGED win_vars

\* poll returns 0 or -1: the while loop ends.
PollFail ==
  /\ pc = "loop"
  /\ Len(trace) <= MaxFaultEvents
  /\ rc # LIBEVDEV_READ_STATUS_SUCCESS
  /\ pc' = "done"
  /\ UNCHANGED <<evdev, keys, kbd_state, uinput_dev, grabbed, rc, trace, pre>>
  /\ UNCHANGED <<diagnostic, exit_status>>
  /\ UNCHANGED win_vars

\* Label done of run_event_loop, and main's return: main prints an error
\* when run_event_loop returns false, and returns -1.
Done ==
  /\ pc = "done"
  /\ grabbed' = FALSE
  /\ uinput_dev' = FALSE
  /\ pc' = "exited"
  /\ diagnostic' = (diagnostic \/ rc # LIBEVDEV_READ_STATUS_SUCCESS)
  /\ exit_status' = <<-1>>
  /\ UNCHANGED <<evdev, keys, kbd_state, rc, trace, pre>>
  /\ UNCHANGED win_vars

\* A terminating signal arrives, at any point where the process runs or
\* waits: no handler is installed, the process dies.
Signal ==
  /\ pc \in {"main", "usleep", "loop", "done"}
  /\ Len(trace) <= MaxFaultEvents
  /\ pc' = "killed"
  /\ UNCHANGED <<evdev, keys, kbd_state, uinput_dev, grabbed, rc, trace, pre>>
  /\ UNCHANGED <<diagnostic, exit_status>>
  /\ UNCHANGED win_vars

Next ==
  \/ \E root \in BOOLEAN, m \in Machines, arg \in Args, created \in BOOLEAN :
       Main(root, m, arg, created)
  \/ Grab
  \/ \E ev \in DeviceEvents(evdev.codes) : NextEvent(ev)
  \/ NextEventAgain
  \/ NextEventError
  \/ NextEventNoDev
  \/ PollFail
  \/ Done
  \/ Signal

Spec == Init /\ [][Next]_vars

(***************************************************************************)
(* WinMain                                                                 *)
(***************************************************************************)
\* The Windows process at the start of WinMain, built with the switch
\* swap_caps_lock_and_escape set or cleared in the initialiser of capsule.
WinInit ==
  /\ pc = "main"
  /\ evdev = NULL
  /\ keys = [c \in KillKeys |-> 0]
  /\ kbd_state = kbd_state_init
  /\ uinput_dev = FALSE
  /\ grabbed = FALSE
  /\ rc = -1
  /\ trace = <<>>
  /\ pre = kbd_state_init
  /\ diagnostic = FALSE
  /\ exit_status = <<>>
  /\ win_pc = "WinMain"
  /\ hhkLowLevelKybd = FALSE
  /\ \E swap \in BOOLEAN : capsule = capsule_init(swap)
  /\ hook_trace = <<>>
  /\ hook_pre = capsule

\* WinMain up to the message loop: SetWindowsHookEx, whose result the code
\* does not test.
WinMain(installed) ==
  /\ win_pc = "WinMain"
  /\ hhkLowLevelKybd' = installed
  /\ win_pc' = "GetMessage"
  /\ UNCHANGED <<capsule, hook_trace, hook_pre, diagnostic, exit_status>>
  /\ UNCHANGED linux_vars

\* The system calls the hook while WinMain waits in GetMessage.
HookCall(call) ==
  /\ win_pc = "GetMessage"
  /\ hhkLowLevelKybd
  /\ Len(hook_trace) < MaxHookCalls
  /\ LET r == LowLevelKeyboardProc(capsule, call.nCode, call.keyEventId, call.p) IN
     /\ capsule' = r.capsule
     /\ hook_pre' = capsule
     /\ hook_trace' = Append(hook_trace,
                             [call |-> call, sent |-> r.sent, next |-> r.next])
  /\ UNCHANGED <<win_pc, hhkLowLevelKybd, diagnostic, exit_status>>
  /\ UNCHANGED linux_vars

\* GetMessage returns r: the loop goes on while r is 0; otherwise the hook
\* is removed and WinMain returns 0.
GetMessage(r) ==
  /\ win_pc = "GetMessage"
  /\ IF r = 0
     THEN UNCHANGED <<win_pc, hhkLowLevelKybd, exit_status>>
     ELSE /\ win_pc' = "exited"
          /\ hhkLowLevelKybd' = FALSE
          /\ exit_status' = <<0>>
  /\ UNCHANGED <<capsule, hook_trace, hook_pre, diagnostic>>
  /\ UNCHANGED linux_vars

WinNext ==
  \/ \E installed \in BOOLEAN : WinMain(installed)
  \/ \E call \in HookCalls : HookCall(call)
  \/ \E r \in {-1, 0, 1} : GetMessage(r)

SpecWin == WinInit /\ [][WinNext]_vars

(***************************************************************************)
(* Vocabulary of the properties.                                           *)
(***************************************************************************)
\* The last event read, with what handle_event wrote for it.
Last == trace[Len(trace)]

\* The last event read was passed to handle_event.
HandledLast == Len(trace) > 0 /\ Last.handled

\* The events read so far.
Inputs == [k \in 1..Len(trace) |-> trace[k].ev]

\* The events written for the first n events read, in order.
RECURSIVE Written(_)
Written(n) == IF n = 0 THEN <<>> ELSE Written(n - 1) \o trace[n].w

\* Everything written to the uinput device so far.
Out == Written(Len(trace))

KeyEvent(c, v) == Event(EV_KEY, c, v)

IsKeyEvent(e) == e.type = EV_KEY

\* A press or release of the Caps Lock key occurs in sequence w.
HasCapsLock(w) ==
  \E k \in 1..Len(w) : IsKeyEvent(w[k]) /\ w[k].code = KEY_CAPSLOCK

\* Row i of the table declares a modifier the code writes.
HasModifier(i) ==
  action_table[i].output.right_alt \/ action_table[i].output.left_ctrl

\* The modifier events row i declares, with value v.
ModifierEvents(i, v) ==
  (IF action_table[i].output.right_alt THEN <<KeyEvent(KEY_RIGHTALT, v)>> ELSE <<>>)
  \o (IF action_table[i].output.left_ctrl THEN <<KeyEvent(KEY_LEFTCTRL, v)>> ELSE <<>>)

\* The last event read is a key event given to handle_event.
LastIsKey == HandledLast /\ IsKeyEvent(Last.ev)

\* The last event read is a key event of the trigger of row i.
LastIsTrigger(i) == LastIsKey /\ Last.ev.code = action_table[i].code

\* The last event read is a key event of a key that is neither Caps Lock
\* nor a trigger.
LastIsUnmapped ==
  /\ HandledLast
  /\ IsKeyEvent(Last.ev)
  /\ Last.ev.code # KEY_CAPSLOCK
  /\ \A i \in ActionIndex : action_table[i].code # Last.ev.code

(***************************************************************************)
(* C1                                                                      *)
(***************************************************************************)
\* Events i..j of the trace are a Caps Lock press, then only non-key events
\* and Caps Lock repeats, then a Caps Lock release, all given to
\* handle_event.
CapsTap(i, j) ==
  /\ trace[i].ev = KeyEvent(KEY_CAPSLOCK, 1)
  /\ trace[j].ev = KeyEvent(KEY_CAPSLOCK, 0)
  /\ \A k \in i..j : trace[k].handled
  /\ \A k \in (i + 1)..(j - 1) :
       IsKeyEvent(trace[k].ev) =>
         (trace[k].ev.code = KEY_CAPSLOCK /\ trace[k].ev.value > 1)

\* C1: when Caps Lock is pressed and then released with no key event of
\* another key in between, nothing is written for the press, no key event
\* is written in between, and the release writes exactly the Caps Lock
\* press, an event of type EV_SYN, the Caps Lock release.
C1_CapsTapWritesPressSyncRelease ==
  \A i \in 1..Len(trace) : \A j \in (i + 1)..Len(trace) :
    CapsTap(i, j) =>
      /\ trace[i].w = <<>>
      /\ \A k \in (i + 1)..(j - 1) :
           \A n \in 1..Len(trace[k].w) : ~IsKeyEvent(trace[k].w[n])
      /\ Len(trace[j].w) = 3
      /\ trace[j].w[1] = KeyEvent(KEY_CAPSLOCK, 1)
      /\ trace[j].w[2].type = EV_SYN
      /\ trace[j].w[3] = KeyEvent(KEY_CAPSLOCK, 0)

(***************************************************************************)
(* C2                                                                      *)
(***************************************************************************)
\* Caps Lock down, trigger of row i down and up, Caps Lock up.
HoldScenario(i) ==
  << KeyEvent(KEY_CAPSLOCK, 1),
     KeyEvent(action_table[i].code, 1),
     KeyEvent(action_table[i].code, 0),
     KeyEvent(KEY_CAPSLOCK, 0) >>

\* The events read so far are the first events of HoldScenario(i), all
\* given to handle_event.
InHoldScenario(i) ==
  \A k \in 1..Len(trace) :
    k <= 4 /\ trace[k].handled /\ trace[k].ev = HoldScenario(i)[k]

\* C2: for every row of the table, after the inputs Caps Lock down, trigger
\* down, trigger up, Caps Lock up from the initial state the output is the
\* row's modifier (if any) and output code pressed, then the modifier (if
\* any) and the output code released; and at no point of that sequence has
\* a Caps Lock press or release been written.
C2_HoldWritesMappedKeyOnly ==
  (Len(trace) > 0 /\ trace[1].ev = KeyEvent(KEY_CAPSLOCK, 1)) =>
    \A i \in ActionIndex :
      InHoldScenario(i) =>
        /\ ~HasCapsLock(Out)
        /\ Len(trace) = 4 =>
             Out = ModifierEvents(i, 1) \o <<KeyEvent(action_table[i].output.code, 1)>>
                   \o ModifierEvents(i, 0)
                   \o <<KeyEvent(action_table[i].output.code, 0)>>

\* Caps+H has run to its end: Left down, Left up were written.
C2_Witness ==
  /\ Inputs = HoldScenario(1)
  /\ Last.handled
  /\ Out = <<KeyEvent(KEY_LEFT, 1), KeyEvent(KEY_LEFT, 0)>>
  /\ ~kbd_state.caps_lock_pressed

(***************************************************************************)
(* C3                                                                      *)
(***************************************************************************)
\* C3: when an event is read while left and right Control are both down in
\* the device's live key state, the loop has ended without giving that
\* event to handle_event (nothing written, kbd_state untouched), and no
\* event is read after an event that was not given to handle_event.
C3_KillswitchEndsLoop ==
  /\ (Len(trace) > 0 /\ keys[KEY_LEFTCTRL] > 0 /\ keys[KEY_RIGHTCTRL] > 0) =>
       /\ pc \in {"done", "exited", "killed"}
       /\ ~Last.handled
       /\ Last.w = <<>>
       /\ kbd_state = pre
  /\ \A k \in 1..Len(trace) : ~trace[k].handled => k = Len(trace)
  /\ (Len(trace) > 0 /\ ~Last.handled) => pc \in {"done", "exited", "killed"}

\* The killswitch ended the loop in the middle of a Caps Lock hold with an
\* action armed.
C3_Witness ==
  /\ Len(trace) > 0
  /\ ~Last.handled
  /\ keys[KEY_LEFTCTRL] > 0 /\ keys[KEY_RIGHTCTRL] > 0
  /\ pc = "done"
  /\ kbd_state.caps_lock_pressed
  /\ kbd_state.key_pressed_while_caps_lock_pressed
  /\ \E i \in ActionIndex : kbd_state.action_table_activated[i]

(***************************************************************************)
(* C4                                                                      *)
(***************************************************************************)
\* C4: once the process has terminated, by whatever path, the grab is
\* released and the uinput device destroyed.
C4_CleanupOnEveryExit ==
  pc \in {"exited", "killed"} => (~grabbed /\ ~uinput_dev)

(***************************************************************************)
(* C5                                                                      *)
(***************************************************************************)
\* C5: after the device is reported gone (-ENODEV) the event loop keeps
\* running: run_event_loop is not left and the process does not exit.
C5_DeviceGoneKeepsLoopRunning ==
  rc = -ENODEV => pc \notin {"done", "exited"}

(***************************************************************************)
(* C6                                                                      *)
(***************************************************************************)
\* C6: for every row that declares a modifier, a press of its trigger while
\* Caps Lock is held writes exactly modifier down, output code down, and a
\* release of its trigger while the action is armed writes exactly modifier
\* up, output code up.
C6_ModifierThenOutputCode ==
  (LastIsKey /\ Last.ev.value \in {0, 1}) =>
    \A i \in ActionIndex :
      (LastIsTrigger(i) /\ HasModifier(i)) =>
        /\ (Last.ev.value = 1 /\ pre.caps_lock_pressed) =>
             Last.w = ModifierEvents(i, 1)
                      \o <<KeyEvent(action_table[i].output.code, 1)>>
        /\ (Last.ev.value = 0 /\ pre.action_table_activated[i]) =>
             Last.w = ModifierEvents(i, 0)
                      \o <<KeyEvent(action_table[i].output.code, 0)>>

\* Caps+Y was pressed and Y has just been released while armed: right Alt
\* up, 7 up were written, after right Alt down, 7 down for the press.
C6_Witness ==
  /\ Len(trace) >= 3
  /\ LastIsTrigger(8)
  /\ Last.ev.value = 0
  /\ pre.action_table_activated[8]
  /\ Last.w = <<KeyEvent(KEY_RIGHTALT, 0), KeyEvent(KEY_7, 0)>>
  /\ trace[Len(trace) - 1].ev = KeyEvent(KEY_Y, 1)
  /\ trace[Len(trace) - 1].w = <<KeyEvent(KEY_RIGHTALT, 1), KeyEvent(KEY_7, 1)>>

(***************************************************************************)
(* C7                                                                      *)
(***************************************************************************)
\* C7: a repeat (value > 1) of the trigger of an armed action writes exactly
\* one event, the output code with the repeat value, and leaves kbd_state
\* (Caps-held flag, dirty flag, armed flags) as it was, whether or not Caps
\* Lock is still held.
C7_RepeatWritesOutputCodeOnly ==
  (LastIsKey /\ Last.ev.value > 1) =>
    \A i \in ActionIndex :
      (LastIsTrigger(i) /\ pre.action_table_activated[i]) =>
        /\ Last.w = <<KeyEvent(action_table[i].output.code, Last.ev.value)>>
        /\ kbd_state = pre

\* Two repeats in a row of an armed trigger whose row has a modifier.
C7_Witness ==
  \E i \in ActionIndex :
    /\ Len(trace) >= 2
    /\ HasModifier(i)
    /\ LastIsTrigger(i)
    /\ Last.ev.value > 1
    /\ pre.action_table_activated[i]
    /\ trace[Len(trace) - 1].ev = Last.ev
    /\ trace[Len(trace) - 1].w = Last.w
    /\ Len(Last.w) = 1

(***************************************************************************)
(* C8                                                                      *)
(***************************************************************************)
\* C8: a press of a trigger while Caps Lock is not held writes exactly the
\* event itself and leaves kbd_state as it was.
C8_PressWithoutCapsForwarded ==
  (LastIsKey /\ Last.ev.value = 1 /\ ~pre.caps_lock_pressed) =>
    \A i \in ActionIndex :
      LastIsTrigger(i) =>
        /\ Last.w = <<Last.ev>>
        /\ kbd_state = pre

\* A trigger was pressed with Caps Lock up and written as itself.
C8_Witness ==
  \E i \in ActionIndex :
    /\ LastIsTrigger(i)
    /\ Last.ev.value = 1
    /\ ~pre.caps_lock_pressed
    /\ Last.w = <<KeyEvent(action_table[i].code, 1)>>

(***************************************************************************)
(* C9                                                                      *)
(***************************************************************************)
\* C9: a release or repeat of a trigger whose action is not armed writes
\* exactly the event itself, never the output code, whether or not Caps
\* Lock is held.
C9_UnarmedReleaseForwarded ==
  (LastIsKey /\ Last.ev.value # 1) =>
    \A i \in ActionIndex :
      (LastIsTrigger(i) /\ ~pre.action_table_activated[i]) =>
        /\ Last.w = <<Last.ev>>
        /\ \A n \in 1..Len(Last.w) : Last.w[n].code # action_table[i].output.code

\* A trigger pressed before Caps Lock went down is released during the hold
\* and written as itself.
C9_Witness ==
  \E i \in ActionIndex :
    /\ Len(trace) >= 3
    /\ LastIsTrigger(i)
    /\ Last.ev.value = 0
    /\ pre.caps_lock_pressed
    /\ ~pre.action_table_activated[i]
    /\ trace[Len(trace) - 2].ev = KeyEvent(action_table[i].code, 1)
    /\ trace[Len(trace) - 1].ev = KeyEvent(KEY_CAPSLOCK, 1)
    /\ Last.w = <<KeyEvent(action_table[i].code, 0)>>

(***************************************************************************)
(* C10                                                                     *)
(***************************************************************************)
\* C10: a key event of a key that is neither Caps Lock nor a trigger writes
\* nothing while Caps Lock is held and sets the dirty flag exactly when it
\* is a press (nothing else of kbd_state changes); while Caps Lock is not
\* held it is written as it came and kbd_state is unchanged.
C10_UnmappedKeySwallowedWhileHeld ==
  LastIsUnmapped =>
    IF pre.caps_lock_pressed
    THEN /\ Last.w = <<>>
         /\ kbd_state =
              [pre EXCEPT !.key_pressed_while_caps_lock_pressed =
                            @ \/ (Last.ev.value = 1)]
    ELSE /\ Last.w = <<Last.ev>>
         /\ kbd_state = pre

\* An unmapped key was pressed during a clean hold: swallowed, hold dirty.
C10_Witness ==
  /\ LastIsUnmapped
  /\ Last.ev.value = 1
  /\ pre.caps_lock_pressed
  /\ ~pre.key_pressed_while_caps_lock_pressed
  /\ kbd_state.key_pressed_while_caps_lock_pressed
  /\ Last.w = <<>>

(***************************************************************************)
(* C11                                                                     *)
(***************************************************************************)
\* Key c is physically held: among the events read, a press of c with no
\* release of c after it.
KeyHeld(c) ==
  \E k \in 1..Len(trace) :
    /\ trace[k].ev = KeyEvent(c, 1)
    /\ \A m \in (k + 1)..Len(trace) : trace[m].ev # KeyEvent(c, 0)

\* Key code c is down in the sequence w of written events: a press of c
\* with no release of c after it.
DownIn(w, c) ==
  \E n \in 1..Len(w) :
    /\ w[n] = KeyEvent(c, 1)
    /\ \A m \in (n + 1)..Len(w) : w[m] # KeyEvent(c, 0)

\* C11: when a trigger is pressed while Caps Lock and left Alt are both
\* held, whichever of the two went down first, the output code's press is
\* written and left Alt is down in what was written before it.
C11_AltHeldReachesOutput ==
  (LastIsKey /\ Last.ev.value = 1
     /\ KeyHeld(KEY_CAPSLOCK) /\ KeyHeld(KEY_LEFTALT)) =>
    \A i \in ActionIndex :
      LastIsTrigger(i) =>
        /\ Last.w = ModifierEvents(i, 1)
                    \o <<KeyEvent(action_table[i].output.code, 1)>>
        /\ DownIn(Written(Len(trace) - 1), KEY_LEFTALT)

(***************************************************************************)
(* C15                                                                     *)
(***************************************************************************)
\* C15: a Caps Lock repeat (value > 1) writes nothing and leaves
\* caps_lock_pressed, key_pressed_while_caps_lock_pressed and every
\* action_table_activated flag as they were, in every state.
C15_CapsRepeatChangesNothing ==
  (LastIsKey /\ Last.ev.code = KEY_CAPSLOCK /\ Last.ev.value > 1) =>
    /\ Last.w = <<>>
    /\ kbd_state = pre

\* A Caps Lock repeat arrived during a hold in which an action is armed: the
\* hold stays held, used and armed.
C15_Witness ==
  /\ LastIsKey
  /\ Last.ev.code = KEY_CAPSLOCK
  /\ Last.ev.value > 1
  /\ pre.caps_lock_pressed
  /\ pre.key_pressed_while_caps_lock_pressed
  /\ \E i \in ActionIndex : pre.action_table_activated[i]
  /\ kbd_state = pre
  /\ Last.w = <<>>

(***************************************************************************)
(* C16                                                                     *)
(***************************************************************************)
\* C16: an event whose type is not EV_KEY is written exactly once, as it
\* came, and leaves kbd_state as it was, in every state.
C16_NonKeyEventForwarded ==
  (HandledLast /\ ~IsKeyEvent(Last.ev)) =>
    /\ Last.w = <<Last.ev>>
    /\ kbd_state = pre

\* A non-key event arrived while Caps Lock was held and an action armed.
C16_Witness ==
  /\ HandledLast
  /\ ~IsKeyEvent(Last.ev)
  /\ pre.caps_lock_pressed
  /\ \E i \in ActionIndex : pre.action_table_activated[i]
  /\ Last.w = <<Last.ev>>
  /\ kbd_state = pre

(***************************************************************************)
(* C17                                                                     *)
(***************************************************************************)
\* Event i is a Caps Lock press and event j the first Caps Lock release
\* after it, with no other Caps Lock press in between.
CapsHold(i, j) ==
  /\ trace[i].ev = KeyEvent(KEY_CAPSLOCK, 1)
  /\ trace[j].ev = KeyEvent(KEY_CAPSLOCK, 0)
  /\ trace[j].handled
  /\ \A k \in (i + 1)..(j - 1) :
       ~(IsKeyEvent(trace[k].ev) /\ trace[k].ev.code = KEY_CAPSLOCK
           /\ trace[k].ev.value <= 1)

\* Some key other than Caps Lock was pressed (value 1) between events i
\* and j.
OtherKeyPressed(i, j) ==
  \E k \in (i + 1)..(j - 1) :
    /\ IsKeyEvent(trace[k].ev)
    /\ trace[k].ev.code # KEY_CAPSLOCK
    /\ trace[k].ev.value = 1

\* Sequence w holds the Caps Lock press and, after it, the Caps Lock release.
HasToggle(w) ==
  \E m \in 1..Len(w) : \E n \in (m + 1)..Len(w) :
    w[m] = KeyEvent(KEY_CAPSLOCK, 1) /\ w[n] = KeyEvent(KEY_CAPSLOCK, 0)

\* C17: a Caps Lock press writes nothing and clears
\* key_pressed_while_caps_lock_pressed; the Caps Lock release that follows
\* it writes the Caps Lock press and release if and only if no other key,
\* trigger or not, was pressed (value 1) since that press, and writes
\* nothing otherwise, whatever happened in earlier holds.  Stated on the
\* release being the last event read: every earlier release was the last
\* event read in an earlier state.
C17_ToggleIffNoPressSinceCapsPress ==
  /\ (LastIsKey /\ Last.ev = KeyEvent(KEY_CAPSLOCK, 1)) =>
       /\ Last.w = <<>>
       /\ ~kbd_state.key_pressed_while_caps_lock_pressed
  /\ (LastIsKey /\ Last.ev = KeyEvent(KEY_CAPSLOCK, 0)) =>
       \A i \in 1..(Len(trace) - 1) :
         CapsHold(i, Len(trace)) =>
           /\ trace[i].w = <<>>
           /\ IF OtherKeyPressed(i, Len(trace))
              THEN Last.w = <<>>
              ELSE HasToggle(Last.w)

\* Another key was pressed while Caps Lock was held, which marked the hold
\* as used; then Caps Lock was pressed again and released with no press in
\* between: the press cleared the flag and the release wrote the toggle.
C17_Witness ==
  /\ Len(trace) = 4
  /\ trace[1].ev = KeyEvent(KEY_CAPSLOCK, 1)
  /\ OtherKeyPressed(1, 3)
  /\ CapsHold(3, 4)
  /\ trace[3].w = <<>>
  /\ HasToggle(trace[4].w)
  /\ ~kbd_state.caps_lock_pressed

(***************************************************************************)
(* C18                                                                     *)
(***************************************************************************)
\* Event k was an event of the trigger of row i for which the row wrote
\* its output code with value v (the event was not forwarded: a forwarded
\* event carries the trigger's code, which is no row's output code).
Synthesized(k, i, v) ==
  /\ trace[k].handled
  /\ IsKeyEvent(trace[k].ev)
  /\ trace[k].ev.code = action_table[i].code
  /\ \E n \in 1..Len(trace[k].w) :
       trace[k].w[n] = KeyEvent(action_table[i].output.code, v)

\* The last press or release row i wrote for its output code is a press.
SynthesizedDown(i) ==
  \E k \in 1..Len(trace) :
    /\ Synthesized(k, i, 1)
    /\ \A m \in (k + 1)..Len(trace) : ~Synthesized(m, i, 0)

\* C18: action i is activated exactly when the last press or release that
\* row i wrote for its output code is a press, whatever was forwarded for a
\* physical key with the same code; and a release of its trigger that
\* arrives after Caps Lock was released, while the action is activated,
\* writes the release of the output code (after the release of the
\* declared modifier) and deactivates the action.  A row whose trigger's
\* code was never read has written nothing, so for it the equivalence is
\* that the action is not activated.
C18_ActivatedIffOutputDown ==
  /\ LET read == {trace[k].ev.code : k \in 1..Len(trace)} IN
     \A i \in ActionIndex :
       IF action_table[i].code \in read
       THEN kbd_state.action_table_activated[i] <=> SynthesizedDown(i)
       ELSE ~kbd_state.action_table_activated[i]
  /\ (LastIsKey /\ Last.ev.value = 0 /\ ~pre.caps_lock_pressed) =>
       \A i \in ActionIndex :
         (LastIsTrigger(i) /\ pre.action_table_activated[i]) =>
           /\ Last.w = ModifierEvents(i, 0)
                       \o <<KeyEvent(action_table[i].output.code, 0)>>
           /\ ~kbd_state.action_table_activated[i]

\* Out-of-order release: the trigger went down during the hold and came up
\* after Caps Lock was released; the output code's release was written.
C18_Witness ==
  /\ LastIsKey
  /\ Last.ev.value = 0
  /\ ~pre.caps_lock_pressed
  /\ \E i \in ActionIndex :
       /\ LastIsTrigger(i)
       /\ pre.action_table_activated[i]
       /\ ~kbd_state.action_table_activated[i]
       /\ Last.w = ModifierEvents(i, 0)
                   \o <<KeyEvent(action_table[i].output.code, 0)>>
       /\ ~SynthesizedDown(i)

(***************************************************************************)
(* C19                                                                     *)
(***************************************************************************)
\* Position of the last press or release of key code c before event k,
\* 0 if there is none.
PrevPressRelease(c, k) ==
  LET S == {m \in 1..(k - 1) :
              IsKeyEvent(trace[m].ev) /\ trace[m].ev.code = c
                /\ trace[m].ev.value <= 1}
  IN IF S = {} THEN 0 ELSE CHOOSE m \in S : \A n \in S : n <= m

\* Every physical key alternates press and release, starting with a press,
\* and repeats only while it is down; every event was given to handle_event.
KeysAlternate ==
  \A k \in 1..Len(trace) :
    /\ trace[k].handled
    /\ IsKeyEvent(trace[k].ev) =>
         LET m == PrevPressRelease(trace[k].ev.code, k) IN
         IF trace[k].ev.value = 1
         THEN m = 0 \/ trace[m].ev.value = 0
         ELSE m # 0 /\ trace[m].ev.value = 1

\* What was written for the events of physical key p.
RECURSIVE WrittenFor(_, _)
WrittenFor(p, n) ==
  IF n = 0 THEN <<>>
  ELSE WrittenFor(p, n - 1)
       \o (IF IsKeyEvent(trace[n].ev) /\ trace[n].ev.code = p
           THEN trace[n].w ELSE <<>>)

\* The key codes of the modelled keyboards and of what is written for them,
\* code 0 of the event between the Caps Lock press and release left out.
KeyCodes ==
  evdev.codes \cup {action_table[i].output.code : i \in ActionIndex}
        \cup {KEY_RIGHTALT, KEY_LEFTCTRL}

\* C19: when every physical key alternates press and release, the written
\* stream is balanced per key code: once a key is released, no press
\* written for its events is left without a release of the same code, and
\* no release is written for a code with no press written before it.
C19_OutputBalancedPerKeyCode ==
  KeysAlternate =>
    /\ \A p \in evdev.codes :
         ~KeyHeld(p) =>
           \A c \in KeyCodes : ~DownIn(WrittenFor(p, Len(trace)), c)
    /\ \A n \in 1..Len(Out) :
         (IsKeyEvent(Out[n]) /\ Out[n].value = 0 /\ Out[n].code \in KeyCodes) =>
           \E m \in 1..(n - 1) : Out[m] = KeyEvent(Out[n].code, 1)

(***************************************************************************)
(* C20                                                                     *)
(***************************************************************************)
\* C20: while an action whose row declares a modifier is activated, every
\* modifier the row declares is down in the written stream: the last press
\* or release written for the modifier's code is a press.
C20_ModifierDownWhileArmed ==
  \A i \in ActionIndex :
    kbd_state.action_table_activated[i] =>
      /\ action_table[i].output.right_alt => DownIn(Out, KEY_RIGHTALT)
      /\ action_table[i].output.left_ctrl => DownIn(Out, KEY_LEFTCTRL)

(***************************************************************************)
(* C12, C13: the Windows hook                                              *)
(***************************************************************************)
\* Call k of the hook is for a physical key event: nCode is HC_ACTION and
\* the event is not injected.
Physical(k) ==
  /\ hook_trace[k].call.nCode = HC_ACTION
  /\ hook_trace[k].call.p.flags = 0

\* Call k of the hook is for the physical key vk going down / going up.
PhysicalDown(k, vk) ==
  /\ Physical(k)
  /\ hook_trace[k].call.p.vkCode = vk
  /\ hook_trace[k].call.keyEventId \in {WM_KEYDOWN, WM_SYSKEYDOWN}

PhysicalUp(k, vk) ==
  /\ Physical(k)
  /\ hook_trace[k].call.p.vkCode = vk
  /\ hook_trace[k].call.keyEventId \in {WM_KEYUP, WM_SYSKEYUP}

\* The press and the release of key vk as SendKeyPress sends them.
SentTap(vk) == << SendKeyPress(vk, WM_KEYDOWN), SendKeyPress(vk, WM_KEYUP) >>

\* C12: with the switch set, Escape going down and then up as the first two
\* key events sends what Caps Lock going down and up sends: nothing for the
\* press, then the press and the release of Escape.
C12_EscapeRunsAsCapsLock ==
  (capsule.swap_caps_lock_and_escape /\ Len(hook_trace) >= 2
     /\ PhysicalDown(1, KEY_ESC) /\ PhysicalUp(2, KEY_ESC)) =>
    /\ hook_trace[1].sent = <<>>
    /\ hook_trace[2].sent = SentTap(KEY_ESC)

\* Call i is the physical Caps Lock going down, call j its going up, and
\* no physical key goes down and no Caps Lock event arrives in between.
WinCapsTap(i, j) ==
  /\ PhysicalDown(i, VK_CAPITAL)
  /\ PhysicalUp(j, VK_CAPITAL)
  /\ \A k \in (i + 1)..(j - 1) :
       Physical(k) =>
         /\ hook_trace[k].call.p.vkCode # VK_CAPITAL
         /\ hook_trace[k].call.keyEventId \notin {WM_KEYDOWN, WM_SYSKEYDOWN}

\* C13: when the physical Caps Lock goes down and up with no key pressed
\* in between, the two Caps Lock events together send exactly a press then
\* a release of Escape when the switch is set (and so no Caps Lock event),
\* and exactly a press then a release of Caps Lock when it is not; neither
\* of the two physical events reaches the next hook.
C13_CapsTapSendsConfiguredKey ==
  \A i \in 1..Len(hook_trace) : \A j \in (i + 1)..Len(hook_trace) :
    WinCapsTap(i, j) =>
      /\ ~hook_trace[i].next /\ ~hook_trace[j].next
      /\ hook_trace[i].sent \o hook_trace[j].sent =
           IF capsule.swap_caps_lock_and_escape
           THEN SentTap(KEY_ESC)
           ELSE SentTap(VK_CAPITAL)

\* Caps Lock was tapped with the switch set and Escape was sent.
C13_Witness ==
  /\ capsule.swap_caps_lock_and_escape
  /\ Len(hook_trace) >= 2
  /\ WinCapsTap(Len(hook_trace) - 1, Len(hook_trace))
  /\ hook_trace[Len(hook_trace)].sent = SentTap(KEY_ESC)

(***************************************************************************)
(* C14                                                                     *)
(***************************************************************************)
\* C14: when the process has returned from main or WinMain, by whatever
\* path, a diagnostic was printed and the status returned is not 0.
C14_EveryExitDiagnosedNonZero ==
  exit_status # <<>> => (diagnostic /\ exit_status[1] # 0)

(***************************************************************************)
(* C21                                                                     *)
(***************************************************************************)
\* In the events read, every key event but the last is followed by an
\* event that is not a key event (the device's synchronization event).
SyncAfterEveryKey ==
  \A k \in 1..(Len(trace) - 1) :
    IsKeyEvent(trace[k].ev) => ~IsKeyEvent(trace[k + 1].ev)

\* Sequence w holds a key event / an event of type EV_SYN.
HasKeyEvent(w) == \E n \in 1..Len(w) : IsKeyEvent(w[n])
HasSync(w) == \E n \in 1..Len(w) : w[n].type = EV_SYN

\* What was written for the events read after event i and before event j.
RECURSIVE WrittenBetween(_, _)
WrittenBetween(i, j) ==
  IF j <= i + 1 THEN <<>> ELSE WrittenBetween(i, j - 1) \o trace[j - 1].w

\* C21: when every key event read is followed by a synchronization event
\* before the next key event, the key events written for one key event
\* (forwarded, mapped with its modifier, or the Caps Lock press and release)
\* are followed in the written stream by an event of type EV_SYN before any
\* key event written for a later event.  Stated on the later event being
\* the last event read: every earlier one was the last in an earlier state.
C21_SyncBetweenWrittenGroups ==
  (LastIsKey /\ HasKeyEvent(Last.w) /\ SyncAfterEveryKey) =>
    \A i \in 1..(Len(trace) - 1) :
      (IsKeyEvent(trace[i].ev) /\ HasKeyEvent(trace[i].w)) =>
        HasSync(WrittenBetween(i, Len(trace)))

\* Two key events, each with key events written for it, with the
\* synchronization event read between them written between them.
C21_Witness ==
  /\ LastIsKey
  /\ HasKeyEvent(Last.w)
  /\ SyncAfterEveryKey
  /\ \E i \in 1..(Len(trace) - 1) :
       /\ IsKeyEvent(trace[i].ev)
       /\ HasKeyEvent(trace[i].w)
       /\ HasSync(WrittenBetween(i, Len(trace)))

(***************************************************************************)
(* C22                                                                     *)
(***************************************************************************)
\* The last call of the hook.
LastCall == hook_trace[Len(hook_trace)]

\* The last call of the hook was for an event flagged LLKHF_INJECTED.
LastInjected ==
  /\ Len(hook_trace) > 0
  /\ LastCall.call.nCode = HC_ACTION
  /\ (LastCall.call.p.flags \div LLKHF_INJECTED) % 2 = 1

\* C22: a call of the hook for an event flagged as injected returns through
\* CallNextHookEx, sends nothing, and leaves caps_lock_pressed,
\* key_pressed_while_caps_lock_pressed and every action_table_activated
\* flag (the whole of capsule) as they were, in every state and for either
\* setting of the switch.
C22_InjectedEventPassedOn ==
  LastInjected =>
    /\ LastCall.next
    /\ LastCall.sent = <<>>
    /\ capsule = hook_pre

\* The press of an output code the hook has just sent for an armed action
\* comes back flagged as injected while Caps Lock is held: it is passed on
\* and the state stays held, used and armed.
C22_Witness ==
  /\ LastInjected
  /\ Len(hook_trace) >= 2
  /\ hook_trace[Len(hook_trace) - 1].sent
       = <<SendKeyPress(LastCall.call.p.vkCode, LastCall.call.keyEventId)>>
  /\ hook_pre.keyboard.state.caps_lock_pressed
  /\ hook_pre.keyboard.state.key_pressed_while_caps_lock_pressed
  /\ \E i \in WinActionIndex : hook_pre.keyboard.state.action_table_activated[i]
  /\ LastCall.next
  /\ LastCall.sent = <<>>
  /\ capsule = hook_pre

====
